---- MODULE Spec2Model ----
(***************************************************************************)
(* Model of the battery tray indicator (battery_indicator.py, config.py).  *)
(*                                                                         *)
(* The program is one BatteryIndicator object driven by GLib callbacks.    *)
(* Its state is the object's fields plus the timer sources armed in the    *)
(* GLib main loop.  Every handler is one action; what a handler reads from *)
(* sysfs and from the external tools (upower, powerprofilesctl,            *)
(* notify-send) is an input of the action, drawn from a small set.  An     *)
(* exception no handler catches ends the refresh that met it.              *)
(*                                                                         *)
(* Durations are whole minutes, the smoothed average is the exact quotient *)
(* sum / len and is truncated only where the code truncates it.            *)
(***************************************************************************)
EXTENDS Integers, Sequences, FiniteSets, TLC

\* Python's None where the other values are integers.
None == 0 - 1

(***************************************************************************)
(* config.py                                                               *)
(***************************************************************************)
UPDATE_INTERVAL == 30
LOW_BATTERY_THRESHOLD == 15
CRITICAL_BATTERY_THRESHOLD == 5
BATTERY_FULL_THRESHOLD == 80
BATTERY_GOOD_THRESHOLD == 50
BATTERY_LOW_THRESHOLD == 20
BATTERY_CAUTION_THRESHOLD == 10
TIME_SMOOTHING_WINDOW == 5
HEALTH_WARNING_THRESHOLD == 40
LOW_BATTERY_UPDATE_INTERVAL == 10

(***************************************************************************)
(* Bounds of the model.                                                    *)
(***************************************************************************)
\* Refreshes explored by the smoothing specification (the record of all
\* accepted samples grows with every poll).
MaxPolls == 7
\* GLib source ids are allocated cyclically in 1..MaxSourceId.
MaxSourceId == 3

(***************************************************************************)
(* State                                                                   *)
(***************************************************************************)
VARIABLES
    battery_path,                \* TRUE iff _find_battery_path found a battery
    icons_path,                  \* TRUE iff _find_icons_path found the icon set
    last_notification_level,     \* None, CRITICAL_ or LOW_BATTERY_THRESHOLD
    time_history,                \* the deque of samples (minutes)
    last_time_type,              \* "None", "remaining" or "until full"
    battery_health_warned,
    update_source_id,            \* id of the GLib source the object remembers
    current_update_interval,
    auto_performance_on_ac,
    auto_saver_on_battery,
    offer_saver_on_low,
    saver_offered_this_session,
    last_ac_status,              \* "None", "True" or "False"
    current_percentage,          \* _current_percentage
    current_status,              \* _current_status
    current_time_info,           \* _current_time_info
    icon_name,                   \* icon handed to the indicator
    tooltip_text,                \* the tooltip: indicator.set_title
    subtitle,                    \* the text of the menu's subtitle label
    timers,                      \* GLib: ids of the armed timeout sources
    notifications,               \* send_notification calls of the last handler
    shown,                       \* the notifications notify-send has put on screen
    profile_sets,                \* _set_power_profile calls of the last handler
    last_call,                   \* the handler that ran last and, for a tick, what it did
    accepted,                    \* history: samples accepted since the type changed
    polls,                       \* history: number of refreshes so far
    low_run,                     \* history: "Low Battery" sent in the current low run
    rearm,                       \* history: re-arming of the low notification
    environ,                     \* os.environ as main() found it
    exit_status,                 \* None while the process runs, else its exit status
    raised,                      \* the last handler ended by an uncaught exception
    read,                        \* history: what the last refresh read
    counts                       \* history: notifications counted per run / session

objvars == <<last_notification_level, time_history, last_time_type,
             battery_health_warned, saver_offered_this_session, last_ac_status,
             current_percentage, current_status, current_time_info, icon_name,
             tooltip_text, subtitle>>
optvars == <<auto_performance_on_ac, auto_saver_on_battery, offer_saver_on_low>>
timervars == <<update_source_id, current_update_interval, timers>>
envvars == <<battery_path, icons_path, environ, exit_status>>
histvars == <<accepted, polls, low_run, rearm, read, counts>>
vars == <<objvars, optvars, timervars, envvars, histvars,
          notifications, shown, profile_sets, last_call, raised>>

(***************************************************************************)
(* Helpers                                                                 *)
(***************************************************************************)
RECURSIVE SumSeq(_)
SumSeq(s) == IF s = <<>> THEN 0 ELSE Head(s) + SumSeq(Tail(s))

\* The last n elements of s, in order.
LastN(s, n) == IF Len(s) <= n THEN s ELSE SubSeq(s, Len(s) - n + 1, Len(s))

(***************************************************************************)
(* Inputs: what one handler run reads from the outside.                    *)
(*                                                                         *)
(* The text after "time to empty:" / "time to full:" is kept as what the   *)
(* parser looks at: the number of whitespace separated tokens, whether the *)
(* first is a number, its value, and the second token (the unit).          *)
(***************************************************************************)
Statuses == {"Charging", "Discharging", "Full", "Not charging", "Unknown"}
TimeTypes == {"remaining", "until full"}

RawTime(tokens, numeric, val, unit) ==
    [tokens |-> tokens, numeric |-> numeric, val |-> val, unit |-> unit]

\* upower's own renderings: "30.0 minutes", "2.0 hours", ...
ValidRaw == {RawTime(2, TRUE, 30, "minutes"), RawTime(2, TRUE, 2, "hours")}
\* ... and texts the parser turns into 0: seconds, days, a zero, "n/a", "soon", "".
InvalidRaw == {RawTime(2, TRUE, 45, "seconds"), RawTime(2, TRUE, 3, "days"),
               RawTime(2, TRUE, 0, "minutes"), RawTime(2, FALSE, 0, "minutes"),
               RawTime(1, FALSE, 0, "")}
EmptyRaw == RawTime(0, FALSE, 0, "")

\* Outcome of `upower -i`: the call failed, or its output holds no estimate
\* line, or the first estimate line found and the text after its colon.
Upower(kind, line, raw) == [kind |-> kind, line |-> line, raw |-> raw]
\* subprocess.run raised a SubprocessError (the 5 s timeout) or FileNotFoundError
\* (upower is not installed).
UpowerError == Upower("error", "none", EmptyRaw)
UpowerNoLine == Upower("ok", "none", EmptyRaw)
\* subprocess.run raised another OSError: PermissionError, exec format error, ...
UpowerOsError == Upower("oserror", "none", EmptyRaw)
\* The output holds an estimate line without a colon: split(':', 1)[1] raises
\* IndexError.
UpowerNoColon == Upower("nocolon", "time to empty", EmptyRaw)
UpowerLines(raws) ==
    {Upower("ok", l, r) : l \in {"time to empty", "time to full"}, r \in raws}

\* Outcome of the notify-send call of send_notification: it ran ("ok", whatever
\* its exit status), it is not installed, it timed out, or subprocess.run
\* raised another OSError.
NotifyOutcomes == {"ok", "missing", "timeout", "oserror"}

\* The capacity file: unreadable, or its stripped text, which is either the
\* decimal rendering of an integer or something else.
CapacityFile(kind, val) == [kind |-> kind, val |-> val]
Unreadable == CapacityFile("unreadable", 0)
NotANumber == CapacityFile("text", 0)
Number(n) == CapacityFile("int", n)

\* os.environ.get: "None" for an unset variable, else its value.
Environ(display, wayland) == [DISPLAY |-> display, WAYLAND_DISPLAY |-> wayland]
X11Session == Environ(":0", "None")

(***************************************************************************)
(* Time-remaining smoothing                                                *)
(***************************************************************************)
\* collections.deque(maxlen=5)
HistoryMaxLen == 5

\* Mutants: a full deque that refuses the new item; a deque without maxlen.
DequeAppendDropsNewest(q, x) ==
    IF Len(q) = HistoryMaxLen THEN q ELSE Append(q, x)
DequeAppendUnbounded(q, x) == Append(q, x)

\* deque.append on a bounded deque: a full deque drops its leftmost item.
DequeAppend(q, x) ==
    IF Len(q) = HistoryMaxLen THEN Append(Tail(q), x) ELSE Append(q, x)

HourUnits == {"hour", "hours"}
MinuteUnits == {"minute", "minutes"}

\* Mutant: a number followed by any unit counts as minutes.
ParseUpowerTimeAnyUnit(raw) ==
    IF raw.tokens < 2 THEN 0
    ELSE IF ~raw.numeric THEN 0
    ELSE IF raw.unit \in HourUnits THEN raw.val * 60
    ELSE raw.val

\* _parse_upower_time_to_minutes
ParseUpowerTimeToMinutes(raw) ==
    IF raw.tokens < 2 THEN 0
    ELSE IF ~raw.numeric THEN 0
    ELSE IF raw.unit \in HourUnits THEN raw.val * 60
    ELSE IF raw.unit \in MinuteUnits THEN raw.val
    ELSE 0

\* The strings get_time_remaining returns as time_str.
Text(t) == [fmt |-> "text", hours |-> 0, mins |-> 0, text |-> t]
HrMin(h, m) == [fmt |-> "hr min", hours |-> h, mins |-> m, text |-> ""]
Min(m) == [fmt |-> "min", hours |-> 0, mins |-> m, text |-> ""]

\* Mutant: the average is always rendered in minutes alone.
FormatAverageMinutesOnly(total, count) == Min(total \div count)

\* "H hr M min" / "M min" of the average total / count.
FormatAverage(total, count) ==
    LET hours == total \div (60 * count)
        mins == (total \div count) % 60
    IN  IF hours > 0 THEN HrMin(hours, mins) ELSE Min(mins)

TimeInfo(str, type) == [str |-> str, type |-> type]

CurrentTimeType(up) ==
    IF up.line = "time to empty" THEN "remaining"
    ELSE IF up.line = "time to full" THEN "until full"
    ELSE "None"

\* `if current_time_type and raw_time_str`
HasEstimate(up) == CurrentTimeType(up) # "None" /\ up.raw.tokens > 0

\* Mutant: a change of estimate type keeps the newest sample of the old type.
HistoryForKeepsNewest(cur, type, history) ==
    IF cur # type THEN LastN(history, 1) ELSE history

\* Mutant: the history survives a change of estimate type.
HistoryForKept(cur, type, history) == history

\* Lines 634-635: a change of estimate type clears the history.
HistoryFor(cur, type, history) == IF cur # type THEN <<>> ELSE history

\* Mutant: a poll without an estimate empties the history.
StatusFallbackClears(history, type, status) ==
    [time_history |-> <<>>, last_time_type |-> type,
     info |-> IF status = "Full" THEN TimeInfo(Text("Fully Charged"), "status")
              ELSE TimeInfo(Text("Estimating..."), "status")]

\* Lines 657-660: no usable estimate, the status decides the text.
StatusFallback(history, type, status) ==
    [time_history |-> history, last_time_type |-> type,
     info |-> IF status = "Full" THEN TimeInfo(Text("Fully Charged"), "status")
              ELSE TimeInfo(Text("Estimating..."), "status")]

\* The exceptions get_time_remaining does not catch leave it, and its caller.
TimeRemainingRaises(path, up) == path /\ up.kind \in {"oserror", "nocolon"}

\* get_time_remaining on the smoothing state (history, type); `status` is what
\* its own read of the status file returns.
GetTimeRemaining(history, type, path, up, status) ==
    IF ~path \/ up.kind = "error"
    THEN [time_history |-> history, last_time_type |-> type,
          info |-> TimeInfo(Text("Unknown"), "status")]
    ELSE IF ~HasEstimate(up) THEN StatusFallback(history, type, status)
    ELSE LET cur == CurrentTimeType(up)
             kept == HistoryFor(cur, type, history)
             minutes == ParseUpowerTimeToMinutes(up.raw)
         IN  IF minutes > 0
             THEN LET h == DequeAppend(kept, minutes)
                  IN  [time_history |-> h, last_time_type |-> cur,
                       info |-> TimeInfo(FormatAverage(SumSeq(h), Len(h)), cur)]
             ELSE StatusFallback(kept, cur, status)

(***************************************************************************)
(* Reading the battery                                                     *)
(***************************************************************************)
\* get_battery_percentage: int() of the capacity text, None when the file
\* cannot be read or int() raises ValueError.
GetBatteryPercentage(file) == IF file.kind = "int" THEN file.val ELSE None

(***************************************************************************)
(* Texts of the tooltip and of the menu                                    *)
(*                                                                         *)
(* A text is kept as its wording and the time_str the f-string puts into   *)
(* it (the empty text where it puts none).                                 *)
(***************************************************************************)
Shows(label, time) == [label |-> label, time |-> time]
Plain(label) == Shows(label, Text(""))

\* _get_tooltip_text
GetTooltipText(percentage, status, time_info) ==
    IF percentage = None THEN Plain("Battery Not Detected")
    ELSE IF status = "Charging"
    THEN IF time_info.type = "until full"
         THEN Shows("{time_str} Until Full ({percentage}%)", time_info.str)
         ELSE Plain("Charging ({percentage}%)")
    ELSE IF status = "Discharging"
    THEN IF time_info.type = "remaining"
         THEN Shows("{time_str} Remaining ({percentage}%)", time_info.str)
         ELSE Plain("{percentage}% Remaining")
    ELSE IF status = "Full" THEN Plain("Fully Charged")
    ELSE IF status = "Not charging" THEN Plain("Not Charging ({percentage}%)")
    ELSE Plain("Battery {percentage}%")

\* _format_time_display
FormatTimeDisplay(status, time_info) ==
    IF status = "Charging"
    THEN IF time_info.type = "until full"
         THEN Shows("{time_str} until full", time_info.str)
         ELSE Plain("Estimating...")
    ELSE IF status = "Discharging"
    THEN IF time_info.type = "remaining"
         THEN Shows("{time_str} remaining", time_info.str)
         ELSE Plain("Estimating...")
    ELSE IF status = "Full" THEN Plain("Fully Charged")
    ELSE IF status = "Not charging" THEN Plain("Plugged in, not charging")
    ELSE Shows("{time_str}", time_info.str)

\* Lines 950-972 of update_battery_info: the subtitle of the header card.
Subtitle(percentage, status, time_info) ==
    IF percentage = None THEN Plain("No battery detected")
    ELSE IF status = "Charging"
    THEN IF time_info.type = "until full"
         THEN Shows("Charging - {time_str} until full", time_info.str)
         ELSE Plain("Charging - estimating...")
    ELSE IF status = "Discharging"
    THEN IF time_info.type = "remaining"
         THEN Shows("On battery - {time_str} remaining", time_info.str)
         ELSE Plain("On battery - estimating...")
    ELSE IF status = "Full" THEN Plain("Fully charged")
    ELSE IF status = "Not charging" THEN Plain("Plugged in, not charging")
    ELSE Plain(status)

(***************************************************************************)
(* Icon selection                                                          *)
(***************************************************************************)
GetIconName(percentage, status, icons) ==
    IF percentage = None
    THEN (IF icons THEN "bat-ind-missing" ELSE "battery-missing-symbolic")
    ELSE LET is_charging == status = "Charging" IN
         IF icons
         THEN IF is_charging THEN "bat-ind-charging"
              ELSE IF percentage >= 80 THEN "bat-ind-100"
              ELSE IF percentage >= 60 THEN "bat-ind-80"
              ELSE IF percentage >= 40 THEN "bat-ind-60"
              ELSE IF percentage >= 20 THEN "bat-ind-40"
              ELSE IF percentage > 5 THEN "bat-ind-20"
              ELSE "bat-ind-empty"
         ELSE IF percentage >= BATTERY_FULL_THRESHOLD
              THEN (IF is_charging THEN "battery-full-charging-symbolic"
                    ELSE "battery-full-symbolic")
              ELSE IF percentage >= BATTERY_GOOD_THRESHOLD
              THEN (IF is_charging THEN "battery-good-charging-symbolic"
                    ELSE "battery-good-symbolic")
              ELSE IF percentage >= BATTERY_LOW_THRESHOLD
              THEN (IF is_charging THEN "battery-low-charging-symbolic"
                    ELSE "battery-low-symbolic")
              ELSE IF percentage >= BATTERY_CAUTION_THRESHOLD
              THEN (IF is_charging THEN "battery-caution-charging-symbolic"
                    ELSE "battery-caution-symbolic")
              ELSE "battery-empty-symbolic"

(***************************************************************************)
(* Notifications and automatic profile switching                           *)
(***************************************************************************)
Notification(title, body) == [title |-> title, body |-> body]
ProfileChanged(to) == Notification("Power Profile Changed", to)
CriticalBattery == Notification("Critical Battery Level", "connect charger")
LowBatteryOffer == Notification("Low Battery", "switch to power saver?")
LowBatteryPlain == Notification("Low Battery", "consider plugging in")
HealthWarning == Notification("Battery Health Warning", "consider replacing")

\* Mutant: send_notification catches nothing.
NotifySendRaisesUncaught(outcome) == outcome # "ok"

\* send_notification: of the outcomes of its subprocess.run, FileNotFoundError
\* and SubprocessError are caught and passed over; another OSError leaves it.
NotifySendRaises(outcome) == outcome = "oserror"
\* What the calls `notes` of one handler put on screen.
Shown(outcome, notes) == IF outcome = "ok" THEN notes ELSE <<>>

AcStatuses == {"Charging", "Full", "Not charging"}
\* _get_power_profile: None without powerprofilesctl, else what it printed
\* ("None" for a call that raised SubprocessError).
GetPowerProfile(ppd, printed) == IF ~ppd THEN "None" ELSE printed

\* Mutant: only Charging counts as AC power.
IsOnAcChargingOnly(status) == status = "Charging"

\* `status_lower in ("charging", "full", "not charging")`
IsOnAc(status) == status \in AcStatuses
BoolStr(b) == IF b THEN "True" ELSE "False"

\* Mutant: the switch is made on every refresh, changed AC state or not.
AcSwitchUnchanged(self, is_on_ac, ppd) ==
    LET to == IF ~ppd THEN "None"
              ELSE IF is_on_ac /\ self.auto_performance_on_ac THEN "performance"
              ELSE IF ~is_on_ac /\ self.auto_saver_on_battery THEN "power-saver"
              ELSE "None"
    IN  [last_ac_status |-> IF ppd THEN BoolStr(is_on_ac) ELSE self.last_ac_status,
         profile_sets |-> IF to = "None" THEN <<>> ELSE <<to>>,
         notifications |-> IF to = "None" THEN <<>> ELSE <<ProfileChanged(to)>>]

\* Lines 762-780: the AC-driven profile switch.  ppd: powerprofilesctl is installed.
AcSwitch(self, is_on_ac, ppd) ==
    LET changed == self.last_ac_status # "None"
                   /\ self.last_ac_status # BoolStr(is_on_ac)
        to == IF ~ppd \/ ~changed THEN "None"
              ELSE IF is_on_ac /\ self.auto_performance_on_ac THEN "performance"
              ELSE IF ~is_on_ac /\ self.auto_saver_on_battery THEN "power-saver"
              ELSE "None"
    IN  [last_ac_status |-> IF ppd THEN BoolStr(is_on_ac) ELSE self.last_ac_status,
         profile_sets |-> IF to = "None" THEN <<>> ELSE <<to>>,
         notifications |-> IF to = "None" THEN <<>> ELSE <<ProfileChanged(to)>>]

\* Mutant: the remembered level survives a percentage above both thresholds.
LevelAboveLowKept(level) == level

\* Lines 830-831: above both thresholds the remembered level is forgotten.
LevelAboveLow(level) == None

\* Mutant: the low threshold is tested first, the critical one never.
LevelCheckLowFirst(self, percentage, ppd, profile) ==
    LET same == [last_notification_level |-> self.last_notification_level,
                 saver_offered_this_session |-> self.saver_offered_this_session,
                 profile_sets |-> <<>>, notifications |-> <<>>]
    IN  IF percentage <= LOW_BATTERY_THRESHOLD
        THEN IF self.last_notification_level # LOW_BATTERY_THRESHOLD
             THEN [same EXCEPT !.last_notification_level = LOW_BATTERY_THRESHOLD,
                               !.notifications = <<LowBatteryPlain>>]
             ELSE same
        ELSE [same EXCEPT !.last_notification_level = None]

\* Mutant: the offer is made without noting that it was made.
LevelCheckOfferNotNoted(self, percentage, ppd, profile) ==
    LET same == [last_notification_level |-> self.last_notification_level,
                 saver_offered_this_session |-> self.saver_offered_this_session,
                 profile_sets |-> <<>>, notifications |-> <<>>]
    IN  IF percentage <= CRITICAL_BATTERY_THRESHOLD
        THEN IF self.last_notification_level # CRITICAL_BATTERY_THRESHOLD
             THEN [same EXCEPT !.last_notification_level = CRITICAL_BATTERY_THRESHOLD,
                               !.notifications = <<CriticalBattery>>]
             ELSE same
        ELSE IF percentage <= LOW_BATTERY_THRESHOLD
        THEN IF self.last_notification_level # LOW_BATTERY_THRESHOLD
             THEN IF self.offer_saver_on_low /\ ~self.saver_offered_this_session
                     /\ ppd /\ profile # "power-saver"
                  THEN [same EXCEPT !.last_notification_level = LOW_BATTERY_THRESHOLD,
                                    !.notifications = <<LowBatteryOffer>>]
                  ELSE [same EXCEPT !.last_notification_level = LOW_BATTERY_THRESHOLD,
                                    !.notifications = <<LowBatteryPlain>>]
             ELSE same
        ELSE [same EXCEPT !.last_notification_level = None]

\* Lines 788-831: the critical / low / neither branch on battery power.
\* profile: what _get_power_profile returns ("None" when the call fails).
LevelCheck(self, percentage, ppd, profile) ==
    LET same == [last_notification_level |-> self.last_notification_level,
                 saver_offered_this_session |-> self.saver_offered_this_session,
                 profile_sets |-> <<>>, notifications |-> <<>>]
    IN  IF percentage <= CRITICAL_BATTERY_THRESHOLD
        THEN IF self.last_notification_level # CRITICAL_BATTERY_THRESHOLD
             THEN [same EXCEPT !.last_notification_level = CRITICAL_BATTERY_THRESHOLD,
                               !.notifications = <<CriticalBattery>>]
             ELSE same
        ELSE IF percentage <= LOW_BATTERY_THRESHOLD
        THEN IF self.last_notification_level # LOW_BATTERY_THRESHOLD
             THEN IF self.offer_saver_on_low /\ ~self.saver_offered_this_session
                     /\ ppd /\ profile # "power-saver"
                  THEN [same EXCEPT !.last_notification_level = LOW_BATTERY_THRESHOLD,
                                    !.saver_offered_this_session = TRUE,
                                    !.notifications = <<LowBatteryOffer>>,
                                    !.profile_sets =
                                        IF self.auto_saver_on_battery
                                        THEN <<"power-saver">> ELSE <<>>]
                  ELSE [same EXCEPT !.last_notification_level = LOW_BATTERY_THRESHOLD,
                                    !.notifications = <<LowBatteryPlain>>]
             ELSE same
        ELSE [same EXCEPT !.last_notification_level =
                              LevelAboveLow(self.last_notification_level)]

\* Mutant: the warning is sent but not remembered.
HealthCheckForgets(self, health) ==
    IF ~self.battery_health_warned /\ health # None /\ health < 40
    THEN [battery_health_warned |-> FALSE, notifications |-> <<HealthWarning>>]
    ELSE [battery_health_warned |-> self.battery_health_warned, notifications |-> <<>>]

\* Lines 833-842: the once-per-session health warning.
HealthCheck(self, health) ==
    IF ~self.battery_health_warned /\ health # None /\ health < 40
    THEN [battery_health_warned |-> TRUE, notifications |-> <<HealthWarning>>]
    ELSE [battery_health_warned |-> self.battery_health_warned, notifications |-> <<>>]

\* check_low_battery: the fields it may change and the calls it makes.
CheckLowBattery(self, percentage, status, ppd, profile, health) ==
    LET keep == [last_notification_level |-> self.last_notification_level,
                 saver_offered_this_session |-> self.saver_offered_this_session,
                 battery_health_warned |-> self.battery_health_warned,
                 last_ac_status |-> self.last_ac_status,
                 profile_sets |-> <<>>, notifications |-> <<>>]
        is_on_ac == IsOnAc(status)
        ac == AcSwitch(self, is_on_ac, ppd)
        lv == LevelCheck(self, percentage, ppd, profile)
        hc == HealthCheck(self, health)
    IN  IF percentage = None THEN keep
        ELSE IF is_on_ac
        THEN [keep EXCEPT !.last_ac_status = ac.last_ac_status,
                          !.last_notification_level = None,
                          !.saver_offered_this_session = FALSE,
                          !.profile_sets = ac.profile_sets,
                          !.notifications = ac.notifications]
        ELSE [last_notification_level |-> lv.last_notification_level,
              saver_offered_this_session |-> lv.saver_offered_this_session,
              battery_health_warned |-> hc.battery_health_warned,
              last_ac_status |-> ac.last_ac_status,
              profile_sets |-> ac.profile_sets \o lv.profile_sets,
              notifications |-> ac.notifications \o lv.notifications
                                \o hc.notifications]

\* check_low_battery when its first send_notification call raises: the
\* assignments made before that call, and the calls up to and including it.
CheckLowBatteryRaises(self, percentage, status, ppd, profile, health) ==
    LET keep == [last_notification_level |-> self.last_notification_level,
                 saver_offered_this_session |-> self.saver_offered_this_session,
                 battery_health_warned |-> self.battery_health_warned,
                 last_ac_status |-> self.last_ac_status,
                 profile_sets |-> <<>>, notifications |-> <<>>]
        is_on_ac == IsOnAc(status)
        ac == AcSwitch(self, is_on_ac, ppd)
        lv == LevelCheck(self, percentage, ppd, profile)
        hc == HealthCheck(self, health)
    IN  IF ac.notifications # <<>>
        THEN [keep EXCEPT !.profile_sets = ac.profile_sets,
                          !.notifications = ac.notifications]
        ELSE IF lv.notifications # <<>>
        THEN [keep EXCEPT !.last_ac_status = ac.last_ac_status,
                          !.notifications = lv.notifications]
        ELSE [keep EXCEPT !.last_ac_status = ac.last_ac_status,
                          !.last_notification_level = lv.last_notification_level,
                          !.saver_offered_this_session =
                              lv.saver_offered_this_session,
                          !.profile_sets = lv.profile_sets,
                          !.notifications = hc.notifications]

(***************************************************************************)
(* History variables (they record what happened, the program never reads   *)
(* them)                                                                   *)
(***************************************************************************)
LowSent(notes) == \E i \in 1..Len(notes) : notes[i].title = "Low Battery"
CriticalSent(notes) == \E i \in 1..Len(notes) : notes[i].title = "Critical Battery Level"

\* The valid samples reported since the estimate type last changed, all of them,
\* and how many samples that change of type made obsolete.
TrackAccepted(acc, path, up) ==
    IF ~path \/ up.kind = "error" \/ ~HasEstimate(up) THEN acc
    ELSE LET cur == CurrentTimeType(up)
             old == IF cur # acc.type THEN <<>> ELSE acc.samples
             minutes == ParseUpowerTimeToMinutes(up.raw)
         IN  [type |-> cur,
              samples |-> IF minutes > 0 THEN Append(old, minutes) ELSE old,
              dropped |-> IF cur # acc.type THEN Len(acc.samples) ELSE acc.dropped]

\* "Low Battery" notifications (at most 2 are counted) sent during the current run
\* of refreshes that observe Discharging at or below LOW_BATTERY_THRESHOLD.
TrackLowRun(n, percentage, status, notes) ==
    IF status = "Discharging" /\ percentage # None
       /\ percentage <= LOW_BATTERY_THRESHOLD
    THEN (IF LowSent(notes) /\ n < 2 THEN n + 1 ELSE n)
    ELSE 0

InLowBand(percentage) ==
    percentage # None /\ percentage > CRITICAL_BATTERY_THRESHOLD
    /\ percentage <= LOW_BATTERY_THRESHOLD

\* One re-arming cycle: "idle" -> "sent" (a Low Battery notification went out)
\* -> "rearmed" (a later refresh saw the percentage above LOW_BATTERY_THRESHOLD, or
\* AC power) -> the next refresh that is a `target`, which is `due` to notify.
TrackRearm(r, percentage, status, notes, target) ==
    LET rearming == percentage # None
                    /\ (percentage > LOW_BATTERY_THRESHOLD \/ status \in AcStatuses)
    IN  IF r.phase = "rearmed"
        THEN IF target
             THEN [phase |-> IF LowSent(notes) THEN "sent" ELSE "idle", due |-> TRUE]
             ELSE [phase |-> "rearmed", due |-> FALSE]
        ELSE IF LowSent(notes) THEN [phase |-> "sent", due |-> FALSE]
        ELSE IF r.phase = "sent" /\ rearming THEN [phase |-> "rearmed", due |-> FALSE]
        ELSE [phase |-> r.phase, due |-> FALSE]

HealthSent(notes) == \E i \in 1..Len(notes) : notes[i] = HealthWarning
OfferSent(notes) == \E i \in 1..Len(notes) : notes[i] = LowBatteryOffer

\* Counters stop at 2: the properties only ask whether a count exceeds 1.
Counted2(n, sent) == IF sent /\ n < 2 THEN n + 1 ELSE n

\* critical_run: "Critical Battery Level" notifications in the current run of
\* refreshes that observe Discharging at or below CRITICAL_BATTERY_THRESHOLD;
\* health_warnings: "Battery Health Warning" notifications since construction;
\* offers: power-saver offers since the last refresh that observed AC power.
TrackCounts(c, percentage, status, notes) ==
    [critical_run |->
        IF status = "Discharging" /\ percentage # None
           /\ percentage <= CRITICAL_BATTERY_THRESHOLD
        THEN Counted2(c.critical_run, CriticalSent(notes)) ELSE 0,
     health_warnings |-> Counted2(c.health_warnings, HealthSent(notes)),
     offers |-> IF status \in AcStatuses THEN 0
                ELSE Counted2(c.offers, OfferSent(notes))]

(***************************************************************************)
(* update_battery_info                                                     *)
(***************************************************************************)
\* What one refresh reads: the capacity file (None: unreadable or not a number),
\* the status file, upower (and, where get_time_remaining falls back on it, the
\* status file once more), the health files, and powerprofilesctl.
Env(capacities, statuses, upowers, healths, ppds) ==
    {[capacity |-> c, status |-> s, status2 |-> u[2], upower |-> u[1],
      health |-> h, ppd |-> p[1], profile |-> p[2], notify |-> "ok",
      recorded |-> FALSE] :
        c \in capacities, s \in statuses, u \in upowers, h \in healths, p \in ppds}

\* The same reads, with every outcome in `outcomes` of the notify-send call.
WithNotify(E, outcomes) == {[e EXCEPT !.notify = n] : e \in E, n \in outcomes}

\* The same reads, kept in the history variable `read` for the properties that
\* speak about what a refresh read.
Recorded(E) == {[e EXCEPT !.recorded = TRUE] : e \in E}

\* Before the first refresh nothing has been read.
NothingRead ==
    [capacity |-> None, status |-> "Unknown", status2 |-> "Unknown",
     upower |-> UpowerNoLine, health |-> None, ppd |-> FALSE, profile |-> "None",
     notify |-> "ok", recorded |-> FALSE]

\* powerprofilesctl: not installed, or installed and printing the profile.
NoPpd == <<FALSE, "None">>
Ppd(profile) == <<TRUE, profile>>

\* The object's fields as one record.
Self ==
    [last_notification_level |-> last_notification_level,
     time_history |-> time_history,
     last_time_type |-> last_time_type,
     battery_health_warned |-> battery_health_warned,
     auto_performance_on_ac |-> auto_performance_on_ac,
     auto_saver_on_battery |-> auto_saver_on_battery,
     offer_saver_on_low |-> offer_saver_on_low,
     saver_offered_this_session |-> saver_offered_this_session,
     last_ac_status |-> last_ac_status,
     current_percentage |-> current_percentage,
     current_status |-> current_status,
     current_time_info |-> current_time_info,
     icon_name |-> icon_name,
     tooltip_text |-> tooltip_text,
     subtitle |-> subtitle,
     notifications |-> notifications,
     shown |-> shown,
     profile_sets |-> profile_sets,
     accepted |-> accepted,
     low_run |-> low_run,
     rearm |-> rearm,
     raised |-> raised,
     read |-> read,
     counts |-> counts]

\* The fields as __init__ sets them before its first refresh.
NewSelf ==
    [last_notification_level |-> None,
     time_history |-> <<>>,
     last_time_type |-> "None",
     battery_health_warned |-> FALSE,
     auto_performance_on_ac |-> FALSE,
     auto_saver_on_battery |-> FALSE,
     offer_saver_on_low |-> TRUE,
     saver_offered_this_session |-> FALSE,
     last_ac_status |-> "None",
     current_percentage |-> None,
     current_status |-> "Unknown",
     current_time_info |-> TimeInfo(Text("Unknown"), "status"),
     icon_name |-> "bat-ind-missing",
     tooltip_text |-> Plain(""),
     subtitle |-> Plain("Checking status..."),
     notifications |-> <<>>,
     shown |-> <<>>,
     profile_sets |-> <<>>,
     accepted |-> [type |-> "None", samples |-> <<>>, dropped |-> 0],
     low_run |-> 0,
     rearm |-> [orig |-> [phase |-> "idle", due |-> FALSE],
                amended |-> [phase |-> "idle", due |-> FALSE]],
     raised |-> FALSE,
     read |-> NothingRead,
     counts |-> [critical_run |-> 0, health_warnings |-> 0, offers |-> 0]]

UpdateBatteryInfo(self, path, icons, e) ==
    LET percentage == IF path THEN e.capacity ELSE None
        status == IF path THEN e.status ELSE "Unknown"
        health == IF path THEN e.health ELSE None
        t == GetTimeRemaining(self.time_history, self.last_time_type, path,
                              e.upower, IF path THEN e.status2 ELSE "Unknown")
        profile == GetPowerProfile(e.ppd, e.profile)
        whole == CheckLowBattery(self, percentage, status, e.ppd, profile, health)
        notify_raises == NotifySendRaises(e.notify) /\ whole.notifications # <<>>
        c == IF notify_raises
             THEN CheckLowBatteryRaises(self, percentage, status, e.ppd,
                                        profile, health)
             ELSE whole
    IN  IF TimeRemainingRaises(path, e.upower)
        THEN [self EXCEPT !.notifications = <<>>, !.shown = <<>>,
                          !.profile_sets = <<>>,
                          !.rearm.orig.due = FALSE, !.rearm.amended.due = FALSE,
                          !.raised = TRUE,
                          !.read = IF e.recorded THEN e ELSE NothingRead]
        ELSE
        [self EXCEPT
            !.raised = notify_raises,
            !.read = IF e.recorded THEN e ELSE NothingRead,
            !.counts = TrackCounts(self.counts, percentage, status, c.notifications),
            !.current_percentage = percentage,
            !.current_status = status,
            !.current_time_info = t.info,
            !.time_history = t.time_history,
            !.last_time_type = t.last_time_type,
            !.icon_name = GetIconName(percentage, status, icons),
            !.tooltip_text = GetTooltipText(percentage, status, t.info),
            !.subtitle = Subtitle(percentage, status, t.info),
            !.last_notification_level = c.last_notification_level,
            !.saver_offered_this_session = c.saver_offered_this_session,
            !.battery_health_warned = c.battery_health_warned,
            !.last_ac_status = c.last_ac_status,
            !.notifications = c.notifications,
            !.shown = Shown(e.notify, c.notifications),
            !.profile_sets = c.profile_sets,
            !.accepted = TrackAccepted(self.accepted, path, e.upower),
            !.low_run = TrackLowRun(self.low_run, percentage, status, c.notifications),
            !.rearm = [orig |-> TrackRearm(self.rearm.orig, percentage, status,
                                c.notifications,
                                status = "Discharging" /\ InLowBand(percentage)),
                       amended |-> TrackRearm(self.rearm.amended, percentage, status,
                                c.notifications,
                                ~IsOnAc(status) /\ InLowBand(percentage))]]

(***************************************************************************)
(* The refresh timer                                                       *)
(***************************************************************************)
\* Mutant: the new source is armed but its id is not remembered.
SetupUpdateTimerForgetsId(armed, source, interval) ==
    LET kept == IF source # None THEN armed \ {source} ELSE armed
        new == IF source = None THEN 1 ELSE (source % MaxSourceId) + 1
    IN  [timers |-> kept \cup {new},
         update_source_id |-> IF source = None THEN new ELSE source,
         current_update_interval |-> interval]

\* _setup_update_timer: GLib.source_remove of the remembered source, then
\* GLib.timeout_add_seconds, which hands out an id no armed source has.
SetupUpdateTimer(armed, source, interval) ==
    LET kept == IF source # None THEN armed \ {source} ELSE armed
        new == IF source = None THEN 1 ELSE (source % MaxSourceId) + 1
    IN  [timers |-> kept \cup {new},
         update_source_id |-> new,
         current_update_interval |-> interval]

\* The period _periodic_update wants for the percentage it has just read
\* (None: it has no opinion).
DesiredInterval(percentage) ==
    IF percentage = None THEN None
    ELSE IF percentage < 20 THEN 10
    ELSE UPDATE_INTERVAL

\* Mutant: every tick with a known percentage re-arms.
NeedsRearmAlways(new_interval, current) == new_interval # None

\* Lines 1056 and 1061: re-arm only for a known percentage and a new period.
NeedsRearm(new_interval, current) == new_interval # None /\ new_interval # current

Call(handler, percentage, desired, result) ==
    [handler |-> handler, percentage |-> percentage,
     desired |-> desired, result |-> result]
\* A handler other than the timer callback: it reads no percentage, returns nothing.
OtherCall(handler) == Call(handler, None, None, TRUE)

(***************************************************************************)
(* Construction                                                            *)
(***************************************************************************)
Store(r) ==
    /\ last_notification_level' = r.last_notification_level
    /\ time_history' = r.time_history
    /\ last_time_type' = r.last_time_type
    /\ battery_health_warned' = r.battery_health_warned
    /\ auto_performance_on_ac' = r.auto_performance_on_ac
    /\ auto_saver_on_battery' = r.auto_saver_on_battery
    /\ offer_saver_on_low' = r.offer_saver_on_low
    /\ saver_offered_this_session' = r.saver_offered_this_session
    /\ last_ac_status' = r.last_ac_status
    /\ current_percentage' = r.current_percentage
    /\ current_status' = r.current_status
    /\ current_time_info' = r.current_time_info
    /\ icon_name' = r.icon_name
    /\ tooltip_text' = r.tooltip_text
    /\ subtitle' = r.subtitle
    /\ notifications' = r.notifications
    /\ shown' = r.shown
    /\ profile_sets' = r.profile_sets
    /\ accepted' = r.accepted
    /\ low_run' = r.low_run
    /\ rearm' = r.rearm
    /\ raised' = r.raised
    /\ read' = r.read
    /\ counts' = r.counts

\* __init__: the fields, the first update_battery_info, then the timer.  An
\* exception of that first refresh leaves __init__ and main(): no timer is
\* armed and the interpreter exits with status 1.
Construct(E, paths, iconsets) ==
    \E e \in E, path \in paths, icons \in iconsets :
        LET r == UpdateBatteryInfo(NewSelf, path, icons, e)
            t == IF r.raised
                 THEN [timers |-> {}, update_source_id |-> None,
                       current_update_interval |-> UPDATE_INTERVAL]
                 ELSE SetupUpdateTimer({}, None, UPDATE_INTERVAL)
        IN  /\ battery_path = path
            /\ icons_path = icons
            /\ last_notification_level = r.last_notification_level
            /\ time_history = r.time_history
            /\ last_time_type = r.last_time_type
            /\ battery_health_warned = r.battery_health_warned
            /\ auto_performance_on_ac = r.auto_performance_on_ac
            /\ auto_saver_on_battery = r.auto_saver_on_battery
            /\ offer_saver_on_low = r.offer_saver_on_low
            /\ saver_offered_this_session = r.saver_offered_this_session
            /\ last_ac_status = r.last_ac_status
            /\ current_percentage = r.current_percentage
            /\ current_status = r.current_status
            /\ current_time_info = r.current_time_info
            /\ icon_name = r.icon_name
            /\ tooltip_text = r.tooltip_text
            /\ subtitle = r.subtitle
            /\ notifications = r.notifications
            /\ shown = r.shown
            /\ profile_sets = r.profile_sets
            /\ accepted = r.accepted
            /\ low_run = r.low_run
            /\ rearm = r.rearm
            /\ raised = r.raised
            /\ read = r.read
            /\ counts = r.counts
            /\ timers = t.timers
            /\ update_source_id = t.update_source_id
            /\ current_update_interval = t.current_update_interval
            /\ last_call = Call("__init__", None, None, TRUE)
            /\ exit_status = IF r.raised THEN 1 ELSE None
            /\ polls = 1

\* `not os.environ.get(name)`: the variable is unset or empty.
NotSet(value) == value \in {"None", ""}

\* main() when neither display variable is set: the message, sys.exit(1).  No
\* BatteryIndicator exists; the model's fields keep placeholder values.
ExitNoDisplay ==
    /\ battery_path = FALSE
    /\ icons_path = FALSE
    /\ last_notification_level = NewSelf.last_notification_level
    /\ time_history = NewSelf.time_history
    /\ last_time_type = NewSelf.last_time_type
    /\ battery_health_warned = NewSelf.battery_health_warned
    /\ auto_performance_on_ac = NewSelf.auto_performance_on_ac
    /\ auto_saver_on_battery = NewSelf.auto_saver_on_battery
    /\ offer_saver_on_low = NewSelf.offer_saver_on_low
    /\ saver_offered_this_session = NewSelf.saver_offered_this_session
    /\ last_ac_status = NewSelf.last_ac_status
    /\ current_percentage = NewSelf.current_percentage
    /\ current_status = NewSelf.current_status
    /\ current_time_info = NewSelf.current_time_info
    /\ icon_name = NewSelf.icon_name
    /\ tooltip_text = NewSelf.tooltip_text
    /\ subtitle = NewSelf.subtitle
    /\ notifications = NewSelf.notifications
    /\ shown = NewSelf.shown
    /\ profile_sets = NewSelf.profile_sets
    /\ accepted = NewSelf.accepted
    /\ low_run = NewSelf.low_run
    /\ rearm = NewSelf.rearm
    /\ raised = FALSE
    /\ read = NothingRead
    /\ counts = NewSelf.counts
    /\ timers = {}
    /\ update_source_id = None
    /\ current_update_interval = UPDATE_INTERVAL
    /\ last_call = OtherCall("main")
    /\ exit_status = 1
    /\ polls = 0

\* main(): the display check, then BatteryIndicator() and Gtk.main().
Main(environs, E, paths, iconsets) ==
    \E env \in environs :
        /\ environ = env
        /\ IF NotSet(env.DISPLAY) /\ NotSet(env.WAYLAND_DISPLAY)
           THEN ExitNoDisplay
           ELSE Construct(E, paths, iconsets)

\* The program started in a session with a display.
InitWith(E, paths, iconsets) == Main({X11Session}, E, paths, iconsets)

(***************************************************************************)
(* Handlers                                                                *)
(***************************************************************************)
\* A specification that records every accepted sample explores MaxPolls refreshes.
Counted(bounded) ==
    /\ bounded => polls < MaxPolls
    /\ polls' = IF bounded THEN polls + 1 ELSE polls

\* Handlers run while the process does.
Running == exit_status = None

\* _periodic_update, run by GLib for the armed source `id`.  again: what its own
\* read of the capacity file returns.  A callback that returns False has its
\* source destroyed by GLib, and so has a callback that raises: the exception is
\* printed and the callback counts as having returned False.
PeriodicUpdate(id, e, again, bounded) ==
    /\ Running
    /\ id \in timers
    /\ Counted(bounded)
    /\ \E r \in {UpdateBatteryInfo(Self, battery_path, icons_path, e)} : Store(r)
    /\ LET percentage == IF battery_path THEN again ELSE None
           new_interval == DesiredInterval(percentage)
           t == SetupUpdateTimer(timers, update_source_id, new_interval)
       IN  IF raised'
           THEN /\ timers' = timers \ {id}
                /\ UNCHANGED <<update_source_id, current_update_interval>>
                /\ last_call' = Call("_periodic_update", None, None, FALSE)
           ELSE IF NeedsRearm(new_interval, current_update_interval)
           THEN /\ timers' = t.timers \ {id}
                /\ update_source_id' = t.update_source_id
                /\ current_update_interval' = t.current_update_interval
                /\ last_call' = Call("_periodic_update", percentage,
                                     new_interval, FALSE)
           ELSE /\ UNCHANGED timervars
                /\ last_call' = Call("_periodic_update", percentage,
                                     new_interval, TRUE)
    /\ UNCHANGED envvars

\* _on_refresh_clicked
OnRefreshClicked(e, bounded) ==
    /\ Running
    /\ Counted(bounded)
    /\ \E r \in {UpdateBatteryInfo(Self, battery_path, icons_path, e)} : Store(r)
    /\ last_call' = OtherCall("_on_refresh_clicked")
    /\ UNCHANGED <<timervars, envvars>>

\* The three check buttons of the power manager dialog.  A toggle makes no call
\* to send_notification or _set_power_profile, and it is no refresh.
Toggled(self) ==
    [self EXCEPT !.notifications = <<>>, !.shown = <<>>, !.profile_sets = <<>>,
                 !.rearm.orig.due = FALSE, !.rearm.amended.due = FALSE,
                 !.raised = FALSE]

OnAutoPerfToggled ==
    /\ Running
    /\ Store([Toggled(Self) EXCEPT !.auto_performance_on_ac = ~auto_performance_on_ac])
    /\ last_call' = OtherCall("toggled")
    /\ UNCHANGED <<timervars, envvars, polls>>

OnAutoSaverToggled ==
    /\ Running
    /\ Store([Toggled(Self) EXCEPT !.auto_saver_on_battery = ~auto_saver_on_battery])
    /\ last_call' = OtherCall("toggled")
    /\ UNCHANGED <<timervars, envvars, polls>>

OnOfferSaverToggled ==
    /\ Running
    /\ Store([Toggled(Self) EXCEPT !.offer_saver_on_low = ~offer_saver_on_low])
    /\ last_call' = OtherCall("toggled")
    /\ UNCHANGED <<timervars, envvars, polls>>

\* _on_quit_clicked: Gtk.main_quit(), Gtk.main() returns and so does main().
OnQuitClicked ==
    /\ Running
    /\ exit_status' = 0
    /\ last_call' = OtherCall("_on_quit_clicked")
    /\ UNCHANGED <<objvars, optvars, timervars, histvars, battery_path, icons_path,
                   environ, notifications, shown, profile_sets, raised>>

\* Ctrl-C while Gtk.main() runs: main() catches KeyboardInterrupt, sys.exit(0).
KeyboardInterrupt ==
    /\ Running
    /\ exit_status' = 0
    /\ last_call' = OtherCall("KeyboardInterrupt")
    /\ UNCHANGED <<objvars, optvars, timervars, histvars, battery_path, icons_path,
                   environ, notifications, shown, profile_sets, raised>>

(***************************************************************************)
(* Specifications                                                          *)
(***************************************************************************)
\* The whole applet while upower is not installed: battery levels on both sides
\* of the notification thresholds, the statuses, the health, the profile tool.
Capacities == {None, 3, 10, 17}
EnvMain ==
    Env(Capacities, {"Charging", "Full", "Discharging", "Unknown"},
        {<<UpowerError, "Unknown">>}, {None},
        {NoPpd, Ppd("balanced")})

Init == InitWith(EnvMain, BOOLEAN, {TRUE})

Tick == \E id \in timers, e \in EnvMain :
            PeriodicUpdate(id, e, e.capacity, FALSE)
Refresh == \E e \in EnvMain : OnRefreshClicked(e, FALSE)

Next ==
    \/ Tick
    \/ Refresh
    \/ OnAutoPerfToggled
    \/ OnAutoSaverToggled
    \/ OnOfferSaverToggled

Spec == Init /\ [][Next]_vars

\* The timer: battery levels on both sides of the interval cutoff, on battery
\* power, and a capacity file that may change between the two reads of a tick.
TimerCapacities == {None, 10, 17, 50}
EnvTimer ==
    Env(TimerCapacities, {"Discharging"}, {<<UpowerError, "Unknown">>}, {None},
        {NoPpd})

InitTimer == InitWith(EnvTimer, BOOLEAN, {TRUE})

TickTimer == \E id \in timers, e \in EnvTimer, again \in TimerCapacities :
                 PeriodicUpdate(id, e, again, FALSE)
RefreshTimer == \E e \in EnvTimer : OnRefreshClicked(e, FALSE)

NextTimer ==
    \/ TickTimer
    \/ RefreshTimer

SpecTimer == InitTimer /\ [][NextTimer]_vars

\* The smoothing: every kind of upower outcome, at a battery level and in
\* statuses that cause no notification, for MaxPolls refreshes.
SmoothStatuses == {"Discharging", "Full"}
EnvSmooth ==
    Env({50}, SmoothStatuses,
        ({UpowerError, UpowerNoLine}
           \cup UpowerLines(ValidRaw \cup InvalidRaw \cup {EmptyRaw}))
          \X SmoothStatuses,
        {None}, {NoPpd})

InitSmooth == InitWith(EnvSmooth, BOOLEAN, {TRUE})

TickSmooth == \E id \in timers, e \in EnvSmooth :
                  PeriodicUpdate(id, e, e.capacity, TRUE)
RefreshSmooth == \E e \in EnvSmooth : OnRefreshClicked(e, TRUE)

NextSmooth ==
    \/ TickSmooth
    \/ RefreshSmooth

SpecSmooth == InitSmooth /\ [][NextSmooth]_vars

\* The icon: every percentage, with and without the custom icon set.
EnvIcon ==
    Env(0..100 \cup {None}, {"Discharging", "Charging"},
        {<<UpowerError, "Unknown">>}, {None}, {NoPpd})

InitIcon == InitWith(EnvIcon, {TRUE}, BOOLEAN)

RefreshIcon == \E e \in EnvIcon : OnRefreshClicked(e, FALSE)

NextIcon == RefreshIcon

SpecIcon == InitIcon /\ [][NextIcon]_vars

\* The samples: one valid rendering and every kind of text the parser rejects,
\* with what each refresh read kept for the properties, for MaxPolls refreshes.
EnvSample ==
    Recorded(Env({50}, {"Discharging"},
                 ({UpowerError, UpowerNoLine}
                    \cup UpowerLines({RawTime(2, TRUE, 30, "minutes")}
                                     \cup InvalidRaw \cup {EmptyRaw}))
                   \X SmoothStatuses,
                 {None}, {NoPpd}))

InitSample == InitWith(EnvSample, BOOLEAN, {TRUE})

TickSample == \E id \in timers, e \in EnvSample :
                  PeriodicUpdate(id, e, e.capacity, TRUE)
RefreshSample == \E e \in EnvSample : OnRefreshClicked(e, TRUE)

NextSample ==
    \/ TickSample
    \/ RefreshSample

SpecSample == InitSample /\ [][NextSample]_vars

\* The process from main() to its exit, with every outcome of the external
\* calls: the display variables set, empty or unset, upower missing, failing
\* with another OS error or printing a line without a colon, notify-send
\* working, missing, timing out or failing with another OS error.
Environs ==
    {Environ("None", "None"), Environ("", ""), Environ("None", ""),
     Environ(":0", "None"), Environ("", "wayland-0")}
EnvProcess ==
    WithNotify(Recorded(Env({None, 3}, {"Discharging", "Charging"},
                            {<<UpowerError, "Unknown">>,
                             <<UpowerOsError, "Unknown">>,
                             <<UpowerNoColon, "Unknown">>,
                             <<UpowerNoLine, "Discharging">>},
                            {None}, {NoPpd})),
               NotifyOutcomes)

InitProcess == Main(Environs, EnvProcess, {TRUE}, {TRUE})

TickProcess == \E id \in timers, e \in EnvProcess :
                   PeriodicUpdate(id, e, e.capacity, FALSE)
RefreshProcess == \E e \in EnvProcess : OnRefreshClicked(e, FALSE)

NextProcess ==
    \/ TickProcess
    \/ RefreshProcess
    \/ OnQuitClicked
    \/ KeyboardInterrupt

SpecProcess == InitProcess /\ [][NextProcess]_vars

\* The external utilities, each either installed and working or not installed,
\* at battery levels with and without a notification.
Profiles == {"balanced", "power-saver", "performance"}
EnvTools ==
    WithNotify(Recorded(Env({None, 10, 50}, {"Discharging", "Charging"},
                            {<<UpowerError, "Unknown">>,
                             <<UpowerNoLine, "Discharging">>},
                            {None}, {NoPpd, Ppd("balanced")})),
               {"ok", "missing"})

InitTools == InitWith(EnvTools, {TRUE}, {TRUE})

TickTools == \E id \in timers, e \in EnvTools :
                 PeriodicUpdate(id, e, e.capacity, FALSE)
RefreshTools == \E e \in EnvTools : OnRefreshClicked(e, FALSE)

NextTools ==
    \/ TickTools
    \/ RefreshTools
    \/ OnAutoSaverToggled

SpecTools == InitTools /\ [][NextTools]_vars

\* The capacity file: unreadable, not a number, and numbers inside and outside
\* the range of a percentage.
CapacityFiles ==
    {Unreadable, NotANumber, Number(0), Number(57), Number(100), Number(150)}
EnvCapacity ==
    Env({GetBatteryPercentage(file) : file \in CapacityFiles}, Statuses,
        {<<UpowerError, "Unknown">>}, {None}, {NoPpd})

InitCapacity == InitWith(EnvCapacity, BOOLEAN, {TRUE})

TickCapacity == \E id \in timers, e \in EnvCapacity :
                    PeriodicUpdate(id, e, e.capacity, FALSE)
RefreshCapacity == \E e \in EnvCapacity : OnRefreshClicked(e, FALSE)

NextCapacity ==
    \/ TickCapacity
    \/ RefreshCapacity

SpecCapacity == InitCapacity /\ [][NextCapacity]_vars

\* The rendering: samples just below, at and above one hour, whose averages
\* are whole and fractional numbers of minutes, for MaxPolls refreshes.
EnvFormat ==
    Env({50}, {"Discharging"},
        {Upower("ok", "time to empty", raw) :
            raw \in {RawTime(2, TRUE, 59, "minutes"), RawTime(2, TRUE, 1, "hours"),
                     RawTime(2, TRUE, 90, "minutes")}}
          \X {"Discharging"},
        {None}, {NoPpd})

InitFormat == InitWith(EnvFormat, {TRUE}, {TRUE})

TickFormat == \E id \in timers, e \in EnvFormat :
                  PeriodicUpdate(id, e, e.capacity, TRUE)
RefreshFormat == \E e \in EnvFormat : OnRefreshClicked(e, TRUE)

NextFormat ==
    \/ TickFormat
    \/ RefreshFormat

SpecFormat == InitFormat /\ [][NextFormat]_vars

\* The battery health: unknown, and values below, at and above
\* HEALTH_WARNING_THRESHOLD, on battery and on AC power.
Healths == {None, 30, 40, 41}
EnvHealth ==
    Recorded(Env({None, 50}, {"Discharging", "Charging", "Unknown"},
                 {<<UpowerError, "Unknown">>}, Healths, {NoPpd}))

InitHealth == InitWith(EnvHealth, BOOLEAN, {TRUE})

TickHealth == \E id \in timers, e \in EnvHealth :
                  PeriodicUpdate(id, e, e.capacity, FALSE)
RefreshHealth == \E e \in EnvHealth : OnRefreshClicked(e, FALSE)

NextHealth ==
    \/ TickHealth
    \/ RefreshHealth

SpecHealth == InitHealth /\ [][NextHealth]_vars

\* The notification levels: percentages in the critical band, in the low band
\* and above, on battery and on AC power, powerprofilesctl missing or printing
\* a profile, and the user switching the power-saver offer off and on.
EnvLevels ==
    Recorded(Env({None, 3, 10, 50}, {"Discharging", "Charging"},
                 {<<UpowerError, "Unknown">>}, {None},
                 {NoPpd, Ppd("balanced"), Ppd("power-saver")}))

InitLevels == InitWith(EnvLevels, {TRUE}, {TRUE})

TickLevels == \E id \in timers, e \in EnvLevels :
                  PeriodicUpdate(id, e, e.capacity, FALSE)
RefreshLevels == \E e \in EnvLevels : OnRefreshClicked(e, FALSE)

NextLevels ==
    \/ TickLevels
    \/ RefreshLevels
    \/ OnOfferSaverToggled

SpecLevels == InitLevels /\ [][NextLevels]_vars

\* The AC-driven switch: plugging in and out at a level without notifications,
\* powerprofilesctl missing or installed, the user switching both options.
EnvAc ==
    Recorded(Env({None, 50}, {"Discharging", "Charging", "Full", "Unknown"},
                 {<<UpowerError, "Unknown">>}, {None}, {NoPpd, Ppd("balanced")}))

InitAc == InitWith(EnvAc, {TRUE}, {TRUE})

TickAc == \E id \in timers, e \in EnvAc : PeriodicUpdate(id, e, e.capacity, FALSE)
RefreshAc == \E e \in EnvAc : OnRefreshClicked(e, FALSE)

NextAc ==
    \/ TickAc
    \/ RefreshAc
    \/ OnAutoPerfToggled
    \/ OnAutoSaverToggled

SpecAc == InitAc /\ [][NextAc]_vars

\* The texts: every status with and without an estimate of either type.
EnvDisplay ==
    Env({None, 50}, Statuses,
        ({UpowerNoLine} \cup UpowerLines({RawTime(2, TRUE, 30, "minutes")}))
          \X {"Discharging"},
        {None}, {NoPpd})

InitDisplay == InitWith(EnvDisplay, {TRUE}, {TRUE})

TickDisplay == \E id \in timers, e \in EnvDisplay :
                   PeriodicUpdate(id, e, e.capacity, TRUE)
RefreshDisplay == \E e \in EnvDisplay : OnRefreshClicked(e, TRUE)

NextDisplay ==
    \/ TickDisplay
    \/ RefreshDisplay

SpecDisplay == InitDisplay /\ [][NextDisplay]_vars

(***************************************************************************)
(* Properties                                                              *)
(***************************************************************************)
Ticked == last_call.handler = "_periodic_update"
AveragedNow == current_time_info.type \in TimeTypes
Window == LastN(accepted.samples, TIME_SMOOTHING_WINDOW)

\* C1: a poll that accepts a sample renders the arithmetic mean of the last (at
\* most TIME_SMOOTHING_WINDOW) valid samples reported since the estimate type
\* last changed, the one just accepted included: the rendered hours and minutes
\* are that mean, cut to whole minutes, and carry that type.  (SpecSmooth)
C1_SmoothedMean ==
    AveragedNow =>
        /\ current_time_info.type = accepted.type
        /\ Window # <<>>
        /\ current_time_info.str.hours * 60 + current_time_info.str.mins
             = SumSeq(Window) \div Len(Window)

\* More samples than the window holds have been accepted, not all alike, and the
\* poll that just ran rendered an average.
C1_Witness ==
    /\ AveragedNow
    /\ Len(accepted.samples) > TIME_SMOOTHING_WINDOW
    /\ accepted.samples[1] # accepted.samples[Len(accepted.samples)]
    /\ SumSeq(accepted.samples) \div Len(accepted.samples)
         # SumSeq(Window) \div Len(Window)

\* C2: a poll that reports an estimate of a type other than the recorded one
\* leaves only its own sample in the buffer (nothing, if that sample is invalid)
\* and records the new type.  (SpecSmooth)
C2_TypeChangeClears ==
    [][accepted'.type # last_time_type =>
          /\ last_time_type' = accepted'.type
          /\ time_history' = accepted'.samples
          /\ Len(time_history') <= 1]_vars

\* The type has changed while two or more samples of the old type were buffered,
\* and the buffer now holds the one new sample.
C2_Witness ==
    /\ accepted.dropped >= 2
    /\ last_time_type = "until full"
    /\ Len(time_history) = 1

\* C3: while the status stays Discharging and the percentage stays at or below
\* LOW_BATTERY_THRESHOLD, "Low Battery" is sent at most once.  (Spec)
C3_LowAtMostOncePerRun == low_run <= 1

LowInterval(percentage) ==
    IF percentage < LOW_BATTERY_THRESHOLD THEN LOW_BATTERY_UPDATE_INTERVAL
    ELSE UPDATE_INTERVAL

\* C5: after construction and after every tick the armed interval is
\* LOW_BATTERY_UPDATE_INTERVAL when the percentage last read is below
\* LOW_BATTERY_THRESHOLD and UPDATE_INTERVAL otherwise.  (SpecTimer)
C5_IntervalFollowsLowThreshold ==
    /\ (last_call.handler = "__init__" /\ current_percentage # None)
          => current_update_interval = LowInterval(current_percentage)
    /\ (Ticked /\ last_call.percentage # None)
          => current_update_interval = LowInterval(last_call.percentage)

\* The level of an icon within its set, lowest first.
IconLevel(name) ==
    CASE name \in {"bat-ind-empty", "battery-empty-symbolic"} -> 0
      [] name \in {"bat-ind-20", "battery-caution-symbolic"} -> 1
      [] name \in {"bat-ind-40", "battery-low-symbolic"} -> 2
      [] name \in {"bat-ind-60", "battery-good-symbolic"} -> 3
      [] name \in {"bat-ind-80", "battery-full-symbolic"} -> 4
      [] name = "bat-ind-100" -> 5
      [] OTHER -> None

IconThresholds ==
    {BATTERY_FULL_THRESHOLD, BATTERY_GOOD_THRESHOLD, BATTERY_LOW_THRESHOLD,
     BATTERY_CAUTION_THRESHOLD}

\* C6: off the charger the icon never goes down as the percentage goes up, and
\* it changes exactly at the configured BATTERY_*_THRESHOLD values, with the
\* custom icon set as with the system theme.  (SpecIcon)
C6_IconPartition ==
    (current_percentage # None /\ current_status # "Charging") =>
        /\ \A q \in 0..current_percentage :
              IconLevel(GetIconName(q, current_status, icons_path))
                <= IconLevel(icon_name)
        /\ current_percentage > 0 =>
              ((icon_name # GetIconName(current_percentage - 1, current_status,
                                        icons_path))
                 <=> current_percentage \in IconThresholds)

NoLevelNotification ==
    ~LowSent(notifications) /\ ~CriticalSent(notifications)

\* A low or critical notification goes out only when the remembered level is
\* not already that level, and the level is remembered from then on.
OncePerCrossing ==
    /\ LowSent(notifications') =>
          /\ last_notification_level # LOW_BATTERY_THRESHOLD
          /\ last_notification_level' = LOW_BATTERY_THRESHOLD
    /\ CriticalSent(notifications') =>
          /\ last_notification_level # CRITICAL_BATTERY_THRESHOLD
          /\ last_notification_level' = CRITICAL_BATTERY_THRESHOLD

\* C7 as claimed: once per crossing, and every refresh with a known percentage
\* and a status other than Discharging resets the remembered level and sends no
\* low or critical notification.  (Spec)
C7_ResetOffDischarging ==
    /\ [][OncePerCrossing]_vars
    /\ [](current_percentage # None /\ current_status # "Discharging"
            => last_notification_level = None /\ NoLevelNotification)

\* C7 as amended: the same for the statuses Charging, Full and Not charging.
\* (Spec)
C7_ResetOnAc ==
    /\ [][OncePerCrossing]_vars
    /\ [](current_percentage # None /\ current_status \in AcStatuses
            => last_notification_level = None /\ NoLevelNotification)

\* A refresh on AC power at a low percentage, after a level had been remembered:
\* the level is gone.
C7_Witness ==
    /\ current_status = "Full"
    /\ current_percentage = 3
    /\ rearm.amended.phase = "rearmed"
    /\ last_notification_level = None

TimerChanged ==
    \/ update_source_id' # update_source_id
    \/ timers' # timers
    \/ current_update_interval' # current_update_interval

\* C8: a tick re-arms the timer only if the period it wants differs from
\* current_update_interval; otherwise the source and the interval stay as they
\* are and the callback returns True.  (SpecTimer)
C8_RearmOnlyOnChange ==
    [][last_call'.handler = "_periodic_update" =>
          /\ TimerChanged =>
                /\ last_call'.desired # None
                /\ last_call'.desired # current_update_interval
                /\ current_update_interval' = last_call'.desired
          /\ last_call'.desired = current_update_interval =>
                /\ UNCHANGED timervars
                /\ last_call'.result = TRUE]_vars

\* A tick has wanted the period already armed, after the timer had been re-armed
\* at the short period.
C8_Witness ==
    /\ Ticked
    /\ last_call.result = TRUE
    /\ last_call.desired = current_update_interval
    /\ current_update_interval = LOW_BATTERY_UPDATE_INTERVAL

\* C9: while the process runs exactly one refresh timer is armed, the one the
\* object remembers, and a tick that re-arms returns False.  (It holds in
\* SpecTimer, where no refresh raises; SpecProcess)
C9_SingleTimer ==
    /\ [](Running => (Cardinality(timers) = 1 /\ timers = {update_source_id}))
    /\ [][update_source_id' # update_source_id => last_call'.result = FALSE]_vars

\* A tick has re-armed the timer.
C9_Witness ==
    /\ Ticked
    /\ last_call.result = FALSE
    /\ update_source_id # 1
    /\ Cardinality(timers) = 1

Polled == polls' = polls + 1
\* The last refresh found an estimate line in upower's output.
ReadEstimateLine ==
    /\ battery_path
    /\ read.recorded
    /\ read.upower.kind = "ok"
    /\ read.upower.line # "none"
\* The text after the colon is a zero or is unparseable: fewer than two tokens,
\* no number, a zero, or a unit that is neither hours nor minutes.
Unusable(raw) ==
    \/ raw.tokens < 2
    \/ ~raw.numeric
    \/ raw.val = 0
    \/ raw.unit \notin {"hour", "hours", "minute", "minutes"}
DiscardedNow == ReadEstimateLine /\ Unusable(read.upower.raw)
StatusResult ==
    /\ current_time_info.type = "status"
    /\ current_time_info.str \in {Text("Fully Charged"), Text("Estimating...")}

\* C11: a poll whose sample is zero or unparseable (fewer than two tokens, a
\* non-numeric value, a zero, or a unit that is neither hours nor minutes) adds
\* no entry to the smoothing buffer (the buffer is left as it was, or emptied by
\* a change of estimate type) and returns ("Fully Charged" | "Estimating...",
\* "status") instead of an average.  (SpecSample)
C11_DiscardedSample ==
    /\ [](DiscardedNow => StatusResult)
    /\ [][(Polled /\ DiscardedNow')
            => time_history' \in {time_history, <<>>}]_vars

\* A sample in days arrived while the buffer held samples of the same type: the
\* buffer is kept and no average is shown.
C11_Witness ==
    /\ DiscardedNow
    /\ read.upower.raw = RawTime(2, TRUE, 3, "days")
    /\ time_history # <<>>
    /\ StatusResult

\* C12: no refresh ends by propagating an exception, whatever its file reads
\* and subprocess calls do: neither the refresh of __init__, nor a tick, nor a
\* click on Refresh.  (SpecProcess)
C12_NoUncaughtException == ~raised

\* C13: every external utility is optional.  No refresh raises and the process
\* never exits with an error; a refresh that finds upower missing shows the
\* estimate ("Unknown", "status"); with notify-send missing nothing is put on
\* screen; without powerprofilesctl the profile reads as None and no profile is
\* set.  (SpecTools)
C13_OptionalUtilities ==
    /\ ~raised
    /\ exit_status = None
    /\ (read.recorded /\ battery_path /\ read.upower = UpowerError)
         => current_time_info = TimeInfo(Text("Unknown"), "status")
    /\ (read.recorded /\ read.notify = "missing") => shown = <<>>
    /\ (read.recorded /\ ~read.ppd) => profile_sets = <<>>
    /\ \A printed \in Profiles : GetPowerProfile(FALSE, printed) = "None"

\* With all three utilities missing a refresh at a low level has run to its
\* end: the notification was attempted, nothing was shown, the level was noted.
C13_Witness ==
    /\ Ticked
    /\ read.recorded
    /\ read.upower = UpowerError
    /\ read.notify = "missing"
    /\ ~read.ppd
    /\ notifications = <<LowBatteryPlain>>
    /\ shown = <<>>
    /\ last_notification_level = LOW_BATTERY_THRESHOLD

\* C14: the percentage of the snapshot is None or an integer within 0..100,
\* whatever the capacity file holds.  (SpecCapacity)
C14_PercentageInRange ==
    current_percentage = None \/ current_percentage \in 0..100

\* C15: the average a = sum / len of the buffer is rendered as "H hr M min"
\* when H > 0 and as "M min" otherwise, where H = floor(a / 60) and
\* M = floor(a mod 60); hence 0 <= M <= 59 and H * 60 + M = floor(a).
\* (SpecFormat)
C15_HoursAndMinutes ==
    AveragedNow =>
        LET total == SumSeq(time_history)
            count == Len(time_history)
            H == current_time_info.str.hours
            M == current_time_info.str.mins
        IN  /\ count > 0
            /\ H * 60 * count <= total
            /\ total < (H + 1) * 60 * count
            /\ M * count <= total - H * 60 * count
            /\ total - H * 60 * count < (M + 1) * count
            /\ M \in 0..59
            /\ (H * 60 + M) * count <= total
            /\ total < (H * 60 + M + 1) * count
            /\ current_time_info.str.fmt = (IF H > 0 THEN "hr min" ELSE "min")

\* An average of more than an hour that is no whole number of minutes.
C15_Witness ==
    /\ AveragedNow
    /\ SumSeq(time_history) % Len(time_history) # 0
    /\ current_time_info.str.fmt = "hr min"
    /\ current_time_info.str.mins > 0

\* C16: the process exits with status 1 exactly when neither DISPLAY nor
\* WAYLAND_DISPLAY holds a non-empty value, and then before a BatteryIndicator
\* is constructed, a refresh is made or a timer is armed; otherwise the
\* indicator is constructed, its timer armed and the event loop entered (where
\* the only exit is a quit or an interrupt, with status 0).  (SpecProcess)
C16_OnlyFatalPath ==
    LET no_display == NotSet(environ.DISPLAY) /\ NotSet(environ.WAYLAND_DISPLAY)
    IN  /\ exit_status = 1 <=> no_display
        /\ no_display =>
              (last_call.handler = "main" /\ polls = 0 /\ timers = {}
               /\ update_source_id = None)
        /\ ~no_display =>
              (last_call.handler # "main" /\ polls > 0 /\ update_source_id # None)

\* The step is a refresh made by a tick or by a click on Refresh.
RefreshStep == last_call'.handler \in {"_periodic_update", "_on_refresh_clicked"}
\* What the last refresh read: a known percentage, on battery power, and a
\* health at or below HEALTH_WARNING_THRESHOLD.
ReadPoorHealth ==
    /\ battery_path
    /\ read.recorded
    /\ read.capacity # None
    /\ ~IsOnAc(read.status)
    /\ read.health # None
    /\ read.health <= HEALTH_WARNING_THRESHOLD

\* C17: a refresh on battery power that finds the health at or below
\* HEALTH_WARNING_THRESHOLD while no warning has been given yet sends
\* "Battery Health Warning": the first refresh of __init__ and every later one.
\* (SpecHealth)
C17_WarnedAtOrBelowThreshold ==
    /\ []((last_call.handler = "__init__" /\ ReadPoorHealth)
            => HealthSent(notifications))
    /\ [][(RefreshStep /\ ~battery_health_warned /\ ReadPoorHealth')
            => HealthSent(notifications')]_vars

\* C19: once battery_health_warned is true it stays true, and no execution
\* sends more than one "Battery Health Warning".  (SpecHealth)
C19_HealthWarnedOnce ==
    /\ [](counts.health_warnings <= 1)
    /\ [][battery_health_warned => battery_health_warned']_vars

\* The warning has been sent, and a later tick that found the health poor
\* again sent nothing.
C19_Witness ==
    /\ Ticked
    /\ battery_health_warned
    /\ counts.health_warnings = 1
    /\ ReadPoorHealth
    /\ read.health < HEALTH_WARNING_THRESHOLD
    /\ notifications = <<>>

\* The last refresh observed Discharging at or below CRITICAL_BATTERY_THRESHOLD.
InCriticalRun ==
    /\ current_status = "Discharging"
    /\ current_percentage # None
    /\ current_percentage <= CRITICAL_BATTERY_THRESHOLD

\* C18: over a run of consecutive refreshes that observe Discharging at or
\* below CRITICAL_BATTERY_THRESHOLD, "Critical Battery Level" is sent at most
\* once: by the first refresh of the run exactly when last_notification_level
\* is not the critical level already, by no later one; and no refresh of the
\* run sends "Low Battery".  (SpecLevels)
C18_CriticalPrecedence ==
    /\ [](counts.critical_run <= 1)
    /\ [](InCriticalRun => ~LowSent(notifications))
    /\ []((last_call.handler = "__init__" /\ InCriticalRun)
            => CriticalSent(notifications))
    /\ [][(RefreshStep /\ ~InCriticalRun /\ InCriticalRun')
            => (CriticalSent(notifications')
                  <=> last_notification_level # CRITICAL_BATTERY_THRESHOLD)]_vars
    /\ [][(RefreshStep /\ InCriticalRun /\ InCriticalRun')
            => ~CriticalSent(notifications')]_vars

\* The second refresh in a row at a critical level: the notification went out
\* with the first one, this one sent nothing.
C18_Witness ==
    /\ Ticked
    /\ InCriticalRun
    /\ counts.critical_run = 1
    /\ notifications = <<>>
    /\ last_notification_level = CRITICAL_BATTERY_THRESHOLD

\* C20: between two consecutive refreshes that observe AC power the power-saver
\* offer is sent at most once; it is sent only by a refresh, while
\* offer_saver_on_low is set, saver_offered_this_session is not, and
\* powerprofilesctl is installed and reports a profile other than power-saver;
\* and saver_offered_this_session is reset only by a refresh that observes
\* Charging, Full or Not charging.  (SpecLevels)
C20_OfferedOncePerDischarge ==
    /\ [](counts.offers <= 1)
    /\ [](OfferSent(notifications)
            => (read.ppd /\ read.profile # "power-saver" /\ offer_saver_on_low
                /\ saver_offered_this_session))
    /\ [][OfferSent(notifications')
            => (RefreshStep /\ offer_saver_on_low
                /\ ~saver_offered_this_session)]_vars
    /\ [][(saver_offered_this_session /\ ~saver_offered_this_session')
            => (RefreshStep /\ read'.status \in AcStatuses)]_vars

\* The offer has been made; a later descent into the low band, with no AC power
\* in between, brought the plain notification although an offer was possible.
C20_Witness ==
    /\ Ticked
    /\ counts.offers = 1
    /\ saver_offered_this_session
    /\ offer_saver_on_low
    /\ read.ppd
    /\ read.profile = "balanced"
    /\ notifications = <<LowBatteryPlain>>

\* The last handler made the AC-driven switch to `to`: _set_power_profile(to)
\* followed by the "Power Profile Changed" notification.
AcSwitched(sets, notes, to) ==
    /\ \E i \in 1..Len(sets) : sets[i] = to
    /\ \E i \in 1..Len(notes) : notes[i] = ProfileChanged(to)
AnyAcSwitch(sets, notes) ==
    sets # <<>> /\ \E i \in 1..Len(notes) : notes[i].title = "Power Profile Changed"

\* C21: the AC-driven profile switch is made only by a refresh that reads a
\* percentage, finds powerprofilesctl, and observes an AC state other than the
\* recorded one (last_ac_status not None): to performance only on plug-in with
\* auto_performance_on_ac set, to power-saver only on unplug with
\* auto_saver_on_battery set.  The refresh of __init__ never switches.  (SpecAc)
C21_SwitchOnlyOnAcChange ==
    /\ [](last_call.handler = "__init__" => ~AnyAcSwitch(profile_sets, notifications))
    /\ [][AnyAcSwitch(profile_sets', notifications')
            => /\ RefreshStep
               /\ read'.capacity # None
               /\ read'.ppd
               /\ last_ac_status # "None"
               /\ last_ac_status # BoolStr(IsOnAc(read'.status))
               /\ \/ /\ IsOnAc(read'.status)
                     /\ auto_performance_on_ac
                     /\ AcSwitched(profile_sets', notifications', "performance")
                  \/ /\ ~IsOnAc(read'.status)
                     /\ auto_saver_on_battery
                     /\ AcSwitched(profile_sets', notifications', "power-saver")]_vars

\* A tick that found the charger plugged in, with the option set, has switched
\* to performance.
C21_Witness ==
    /\ Ticked
    /\ auto_performance_on_ac
    /\ read.status = "Charging"
    /\ last_ac_status = "True"
    /\ AcSwitched(profile_sets, notifications, "performance")

\* C22: refresh never stops.  While the process runs a refresh timer is armed
\* after every handler (a tick has kept its timer or armed a new one), so that
\* a timer that fires fairly runs update_battery_info again and again.
\* (It holds in SpecTimer, where no refresh raises; SpecProcess)
C22_RefreshNeverStops == Running => timers # {}

\* C23: at every known percentage the icon of a charging battery differs from
\* the icon of a discharging one, with the custom icon set and with the system
\* theme: the icon shown is not the one the same percentage would get under
\* the other of the two statuses.  (SpecIcon)
C23_IconReflectsCharging ==
    (current_percentage # None /\ current_status \in {"Charging", "Discharging"})
        => /\ icon_name = GetIconName(current_percentage, current_status, icons_path)
           /\ GetIconName(current_percentage, "Charging", icons_path)
                # GetIconName(current_percentage, "Discharging", icons_path)

\* The last refresh got no estimate line: there is no battery path, or the
\* upower call failed or timed out, or its output has neither line.
NoEstimateLine ==
    /\ read.recorded
    /\ \/ ~battery_path
       \/ read.upower.kind = "error"
       \/ (read.upower.kind = "ok" /\ read.upower.line = "none")

\* C24: a poll that yields no estimate line leaves time_history and
\* last_time_type as they were (so the next sample of the same type joins the
\* samples recorded before the gap).  (SpecSample)
C24_GapKeepsSmoothingState ==
    [][(Polled /\ NoEstimateLine')
        => (time_history' = time_history /\ last_time_type' = last_time_type)]_vars

\* A failed upower call and an output without estimate line, each met while the
\* buffer held samples: they are still there.
C24_Witness ==
    /\ battery_path
    /\ NoEstimateLine
    /\ read.upower = UpowerNoLine
    /\ Len(time_history) >= 2
    /\ last_time_type = "remaining"
    /\ StatusResult

\* C25: every sample in the buffer is strictly positive and was recorded under
\* the estimate type stored in last_time_type: the buffer holds the latest valid
\* samples reported since the type last changed, a poll that changes the type
\* leaves at most its own sample, and a poll that adds a sample adds a positive
\* one of the type it read.  An average is computed from a non-empty buffer
\* only, and carries that type.  (SpecSample)
C25_BufferOfOneType ==
    /\ [](\A i \in 1..Len(time_history) : time_history[i] > 0)
    /\ [](time_history # <<>>
            => /\ last_time_type \in TimeTypes
               /\ last_time_type = accepted.type
               /\ time_history = LastN(accepted.samples, TIME_SMOOTHING_WINDOW))
    /\ [](AveragedNow
            => (time_history # <<>> /\ current_time_info.type = last_time_type))
    /\ [][last_time_type' # last_time_type
            => /\ Len(time_history') <= 1
               /\ last_time_type' = CurrentTimeType(read'.upower)]_vars
    /\ [][(Polled /\ Len(time_history') > Len(time_history))
            => /\ read'.upower.kind = "ok"
               /\ last_time_type' = CurrentTimeType(read'.upower)
               /\ time_history'[Len(time_history')] > 0]_vars

\* After a change from "remaining" to "until full" that emptied the buffer, it
\* holds two samples of the new type.
C25_Witness ==
    /\ last_time_type = "until full"
    /\ accepted.dropped > 0
    /\ Len(time_history) = 2
    /\ AveragedNow

\* A text presents a time value when the time_str put into it is a duration.
PresentsDuration(text) == text.time.fmt \in {"hr min", "min"}

\* The estimate the object holds belongs to the status it holds.
EstimateMatchesStatus ==
    \/ current_status = "Charging" /\ current_time_info.type = "until full"
    \/ current_status = "Discharging" /\ current_time_info.type = "remaining"

\* C26: with a known percentage the tooltip, the menu subtitle and
\* _format_time_display present a duration only when the status is Charging
\* and the estimate is "until full", or the status is Discharging and the
\* estimate is "remaining"; every other combination gets a text without one.
C26_DurationMatchesStatus ==
    current_percentage # None =>
        \A text \in {tooltip_text, subtitle,
                     FormatTimeDisplay(current_status, current_time_info)} :
            PresentsDuration(text) => EstimateMatchesStatus

\* The last refresh of the running program called send_notification for a level
\* and notify-send put nothing on screen: it is missing, it timed out or it
\* could not be run.
Undelivered(sent) == Running /\ read.recorded /\ read.notify # "ok" /\ sent

\* C27: the notified level is recorded whether or not the notification was
\* delivered.  After a refresh whose "Critical Battery Level" ("Low Battery")
\* notification was not delivered, last_notification_level is the critical
\* (low) threshold, and a later refresh of the same discharge at that level
\* does not send it again.  (SpecProcess)
C27_LevelRecordedUndelivered ==
    /\ [](Undelivered(CriticalSent(notifications))
             => last_notification_level = CRITICAL_BATTERY_THRESHOLD)
    /\ [](Undelivered(LowSent(notifications))
             => last_notification_level = LOW_BATTERY_THRESHOLD)
    /\ [][(/\ RefreshStep
           /\ Undelivered(CriticalSent(notifications))
           /\ read'.status = "Discharging"
           /\ read'.capacity \in 0..CRITICAL_BATTERY_THRESHOLD)
             => ~CriticalSent(notifications')]_vars

====
